---- MODULE Spec2Model ----
(***************************************************************************)
(* S3IterableDataset (s3torchconnector/s3iterable_dataset.py).             *)
(*                                                                         *)
(* One dataset instance, built by from_objects or from_prefix, and the     *)
(* consumer threads that call iter() on it and next() on the map objects   *)
(* it returns.  A call of __iter__ and a call of next() are split at the   *)
(* points where the code calls out: _get_client (check of _client,         *)
(* construction of the S3Client, its store to _client, return), the        *)
(* selector, get_object, the transform.                                    *)
(***************************************************************************)
EXTENDS Integers, Sequences, FiniteSets, TLC

VARIABLES
    object_uris,  \* the argument bound by partial(): [mode, kind, uris]
    transform,    \* self._transform: the name of the user callable
    uriCursor,    \* elements already taken from a one-shot iterator argument
    client,       \* self._client: NoClient, or the handle of an S3Client
    created,      \* number of S3Client objects constructed for this instance
    threads,      \* the consumer threads
    pc,           \* per thread: where it stands
    ret,          \* per thread: the caller of _get_client ("iter", "pull"; "none" when idle)
    cur,          \* per thread: the map object whose next() it runs
    h,            \* per thread: the handle _get_client returned
    made,         \* per thread: the S3Client line 88 built and has not stored yet
    elem,         \* per thread: the S3BucketKey taken from the selector
    reader,       \* per thread: the S3Reader get_object returned (its payload)
    iters,        \* the map objects returned by __iter__, in creation order
    calls,        \* number of __iter__ calls begun
    invalid,      \* number of __iter__ calls that raised InvalidSpecification
    lists,        \* handles used by list calls, in call order
    faultsLeft    \* transient store failures still to inject

vars == <<object_uris, transform, uriCursor, client, created, threads, pc, ret,
          cur, h, made, elem, reader, iters, calls, invalid, lists, faultsLeft>>

-----------------------------------------------------------------------------
(* Bounds *)

MaxUris == 2      \* longest object_uris argument
MaxIters == 2     \* __iter__ calls on the instance
MaxFaults == 1    \* transient failures injected by the store
MaxPulls == MaxUris + 1   \* next() calls per map object (enough to exhaust it)

(* The fetch window of the pipeline; 1 is the smallest window it can be    *)
(* configured with.                                                        *)
W == 1

NoClient == 0

-----------------------------------------------------------------------------
(* URIs are character sequences, parsed as s3://<bucket>/<key>. *)

Scheme == <<"s", "3", ":", "/", "/">>
UriA == Scheme \o <<"b", "/", "a">>
UriC == Scheme \o <<"b", "/", "c">>
UriX == Scheme \o <<"b", "/", "x">>
UriNoKey == Scheme \o <<"b", "/">>
UriNoBucket == Scheme \o <<"/", "a">>
UriPrefixD == Scheme \o <<"b", "/", "d">>
UriPrefixZ == Scheme \o <<"b", "/", "z">>

InputUris == {UriA, UriC, UriX, UriNoKey}
PrefixUris == {UriPrefixD, UriPrefixZ, UriNoBucket}

(* The remote store: its objects in listing order, with their payloads. *)
StoreObjects ==
    << [bucket |-> <<"b">>, key |-> <<"a">>, payload |-> 1],
       [bucket |-> <<"b">>, key |-> <<"c">>, payload |-> 0],
       [bucket |-> <<"b">>, key |-> <<"d", "a">>, payload |-> 2],
       [bucket |-> <<"b">>, key |-> <<"d", "b">>, payload |-> 3] >>

TransformNames == {"identity", "decode"}

S3BucketKey(b, k) == [bucket |-> b, key |-> k]
NoElem == S3BucketKey(<<>>, <<>>)

-----------------------------------------------------------------------------
(* The selector: parse_s3_uri, get_objects_from_uris, get_objects_from_prefix *)

SlashPos(s) ==
    IF \E i \in 1..Len(s) : s[i] = "/"
    THEN CHOOSE i \in 1..Len(s) : s[i] = "/" /\ \A j \in 1..(i - 1) : s[j] # "/"
    ELSE 0

ParseUri(u) ==
    LET scheme == Len(u) >= Len(Scheme) /\ SubSeq(u, 1, Len(Scheme)) = Scheme
        rest == IF scheme THEN SubSeq(u, Len(Scheme) + 1, Len(u)) ELSE <<>>
        p == SlashPos(rest)
        b == IF p = 0 THEN rest ELSE SubSeq(rest, 1, p - 1)
        k == IF p = 0 THEN <<>> ELSE SubSeq(rest, p + 1, Len(rest))
    IN [ok |-> scheme /\ b # <<>> /\ k # <<>>, bucket |-> b, key |-> k]

WellFormed(u) == ParseUri(u).ok

FirstMalformed(us) ==
    IF \E i \in 1..Len(us) : ~WellFormed(us[i])
    THEN CHOOSE i \in 1..Len(us) :
            ~WellFormed(us[i]) /\ \A j \in 1..(i - 1) : WellFormed(us[j])
    ELSE 0

(* get_objects_from_uris(object_uris, client): a str is one URI, anything  *)
(* else is iterated; every URI is parsed before the sequence is returned.  *)
(* A one-shot iterator hands out only what was not taken from it before,   *)
(* and the parse stops taking at the first malformed URI.                  *)
GetObjectsFromUris(arg, cursor) ==
    LET avail == IF arg.kind = "iter"
                 THEN SubSeq(arg.uris, cursor + 1, Len(arg.uris))
                 ELSE arg.uris
        bad == FirstMalformed(avail)
        taken == IF bad = 0 THEN avail ELSE SubSeq(avail, 1, bad)
    IN [ok |-> bad = 0,
        objs |-> IF bad = 0
                 THEN [i \in 1..Len(avail) |->
                         S3BucketKey(ParseUri(avail[i]).bucket, ParseUri(avail[i]).key)]
                 ELSE <<>>,
        pending |-> FALSE,
        larg |-> NoElem,
        cursor |-> IF arg.kind = "iter" THEN cursor + Len(taken) ELSE cursor]

(* get_objects_from_prefix(s3_uri, client): the URI is parsed at once, the *)
(* listing is issued when the sequence is first consumed.                  *)
GetObjectsFromPrefix(arg, cursor) ==
    LET p == ParseUri(arg.uris[1])
    IN [ok |-> p.ok,
        objs |-> <<>>,
        pending |-> p.ok,
        larg |-> IF p.ok THEN S3BucketKey(p.bucket, p.key) ELSE NoElem,
        cursor |-> cursor]

GetDatasetObjects(arg, cursor) ==
    IF arg.mode = "objects" THEN GetObjectsFromUris(arg, cursor)
    ELSE GetObjectsFromPrefix(arg, cursor)

StartsWith(s, p) == Len(s) >= Len(p) /\ SubSeq(s, 1, Len(p)) = p

(* list(bucket, prefix): the store's objects under the prefix, store order *)
ListObjects(b, p) ==
    LET match(o) == o.bucket = b /\ StartsWith(o.key, p)
        hits == SelectSeq(StoreObjects, match)
    IN [i \in 1..Len(hits) |-> S3BucketKey(hits[i].bucket, hits[i].key)]

ObjectExists(o) ==
    \E i \in 1..Len(StoreObjects) :
        StoreObjects[i].bucket = o.bucket /\ StoreObjects[i].key = o.key

Payload(o) ==
    LET i == CHOOSE j \in 1..Len(StoreObjects) :
                StoreObjects[j].bucket = o.bucket /\ StoreObjects[j].key = o.key
    IN StoreObjects[i].payload

-----------------------------------------------------------------------------
(* The user transform: identity hands the reader on, decode fails on an    *)
(* empty payload and otherwise returns a value computed from it.           *)

TransformRaises(f, r) == f = "decode" /\ r = 0

ApplyTransform(f, r) == IF f = "identity" THEN r ELSE r + 10

-----------------------------------------------------------------------------
(* What the consumer receives from a next() call *)

Item(v) == [kind |-> "item", val |-> v, cause |-> "none"]
Error(c) == [kind |-> "error", val |-> 0, cause |-> c]
Stop == [kind |-> "stop", val |-> 0, cause |-> "none"]

-----------------------------------------------------------------------------
(* The arguments a dataset can be built from *)

UriSeqs == UNION {[1..n -> InputUris] : n \in 0..MaxUris}

FromObjects ==
    {[mode |-> "objects", kind |-> "str", uris |-> <<u>>] : u \in InputUris}
    \cup {[mode |-> "objects", kind |-> k, uris |-> us] :
            k \in {"list", "iter"}, us \in UriSeqs}

FromPrefix == {[mode |-> "prefix", kind |-> "str", uris |-> <<u>>] : u \in PrefixUris}

(* __init__: the callables are stored, no client exists *)
InitDataset(args, ths) ==
    /\ object_uris \in args
    /\ transform \in TransformNames
    /\ uriCursor = 0
    /\ client = NoClient
    /\ created = 0
    /\ threads = ths
    /\ pc = [t \in ths |-> "idle"]
    /\ ret = [t \in ths |-> "none"]
    /\ cur = [t \in ths |-> 0]
    /\ h = [t \in ths |-> NoClient]
    /\ made = [t \in ths |-> NoClient]
    /\ elem = [t \in ths |-> NoElem]
    /\ reader = [t \in ths |-> 0]
    /\ iters = <<>>
    /\ calls = 0
    /\ invalid = 0
    /\ lists = <<>>
    /\ faultsLeft = MaxFaults

Init == InitDataset(FromObjects \cup FromPrefix, {1})

-----------------------------------------------------------------------------
(* _get_client *)

(* A call returns: the thread is idle again and its frame is gone *)
Return(t) ==
    /\ pc' = [pc EXCEPT ![t] = "idle"]
    /\ cur' = [cur EXCEPT ![t] = 0]
    /\ h' = [h EXCEPT ![t] = NoClient]
    /\ elem' = [elem EXCEPT ![t] = NoElem]
    /\ reader' = [reader EXCEPT ![t] = 0]
    /\ ret' = [ret EXCEPT ![t] = "none"]

(* A _get_client that does not memoize: it builds a client on every call *)
ClientMissingAlways(c) == TRUE

(* line 87: if self._client is None *)
ClientMissing(c) == c = NoClient

GetClientCheck(t) ==
    /\ pc[t] = "gc_check"
    /\ pc' = [pc EXCEPT ![t] = IF ClientMissing(client) THEN "gc_new" ELSE "gc_ret"]
    /\ UNCHANGED <<object_uris, transform, uriCursor, client, created, threads, made, ret,
                   cur, h, elem, reader, iters, calls, invalid, lists, faultsLeft>>

(* line 88, right-hand side: S3Client(self.region) is built; self._client  *)
(* still holds what it held                                                *)
GetClientNew(t) ==
    /\ pc[t] = "gc_new"
    /\ created' = created + 1
    /\ made' = [made EXCEPT ![t] = created + 1]
    /\ pc' = [pc EXCEPT ![t] = "gc_store"]
    /\ UNCHANGED <<object_uris, transform, uriCursor, client, threads, ret,
                   cur, h, elem, reader, iters, calls, invalid, lists, faultsLeft>>

(* line 88, the assignment: the client this thread built is stored to      *)
(* self._client, over whatever another thread stored meanwhile             *)
GetClientStore(t) ==
    /\ pc[t] = "gc_store"
    /\ client' = made[t]
    /\ made' = [made EXCEPT ![t] = NoClient]
    /\ pc' = [pc EXCEPT ![t] = "gc_ret"]
    /\ UNCHANGED <<object_uris, transform, uriCursor, created, threads, ret,
                   cur, h, elem, reader, iters, calls, invalid, lists, faultsLeft>>

(* line 89: return self._client *)
GetClientReturn(t) ==
    /\ pc[t] = "gc_ret"
    /\ h' = [h EXCEPT ![t] = client]
    /\ pc' = [pc EXCEPT ![t] = IF ret[t] = "iter" THEN "select" ELSE "get"]
    /\ UNCHANGED <<object_uris, transform, uriCursor, client, created, threads, made, ret,
                   cur, elem, reader, iters, calls, invalid, lists, faultsLeft>>

-----------------------------------------------------------------------------
(* __iter__ *)

Exhausted(it) == \E k \in 1..Len(it.out) : it.out[k].kind = "stop"

DoneIters == {i \in 1..Len(iters) : Exhausted(iters[i])}

(* line 98: the argument self._get_client() is evaluated first *)
IterBegin(t) ==
    /\ pc[t] = "idle"
    /\ calls < MaxIters
    /\ calls' = calls + 1
    /\ ret' = [ret EXCEPT ![t] = "iter"]
    /\ pc' = [pc EXCEPT ![t] = "gc_check"]
    /\ UNCHANGED <<object_uris, transform, uriCursor, client, created, threads, made,
                   cur, h, elem, reader, iters, invalid, lists, faultsLeft>>

NewIter(t, s) ==
    [owner |-> t, handle |-> h[t], pending |-> s.pending, larg |-> s.larg,
     objs |-> s.objs, sel |-> s.objs, out |-> <<>>, gets |-> <<>>,
     pulls |-> 0, open |-> 0, after |-> DoneIters]

(* lines 97-99: self._get_dataset_objects(client) runs, then map() wraps    *)
(* its result; an error of the selector leaves __iter__ before any map      *)
(* object exists.                                                           *)
IterSelect(t) ==
    /\ pc[t] = "select"
    /\ LET s == GetDatasetObjects(object_uris, uriCursor)
       IN /\ uriCursor' = s.cursor
          /\ iters' = IF s.ok THEN Append(iters, NewIter(t, s)) ELSE iters
          /\ invalid' = IF s.ok THEN invalid ELSE invalid + 1
    /\ Return(t)
    /\ UNCHANGED <<object_uris, transform, client, created, threads, made,
                   calls, lists, faultsLeft>>

-----------------------------------------------------------------------------
(* next() on a map object: one element of the selector, then                *)
(* _get_transformed_object on it                                            *)

(* A map that hands out the last element of what is left *)
NextElemLast(objs) == objs[Len(objs)]

(* map takes the elements of its iterable front to back *)
NextElem(objs) == Head(objs)

PullBegin(t, i) ==
    /\ pc[t] = "idle"
    /\ i \in 1..Len(iters)
    /\ iters[i].owner = t
    /\ iters[i].pulls < MaxPulls
    /\ LET it == iters[i]
           listed == IF it.pending THEN ListObjects(it.larg.bucket, it.larg.key)
                     ELSE it.objs
           it1 == [it EXCEPT !.pulls = @ + 1, !.pending = FALSE,
                             !.sel = IF it.pending THEN listed ELSE @]
       IN /\ lists' = IF it.pending THEN Append(lists, it.handle) ELSE lists
          /\ IF listed = <<>>
             THEN /\ iters' = [iters EXCEPT ![i] =
                                 [it1 EXCEPT !.objs = <<>>, !.out = Append(@, Stop)]]
                  /\ UNCHANGED <<pc, ret, cur, elem>>
             ELSE /\ iters' = [iters EXCEPT ![i] = [it1 EXCEPT !.objs = Tail(listed)]]
                  /\ elem' = [elem EXCEPT ![t] = NextElem(listed)]
                  /\ cur' = [cur EXCEPT ![t] = i]
                  /\ ret' = [ret EXCEPT ![t] = "pull"]
                  /\ pc' = [pc EXCEPT ![t] = "gc_check"]
    /\ UNCHANGED <<object_uris, transform, uriCursor, client, created, threads, made,
                   h, reader, calls, invalid, faultsLeft>>

GetRecord(t) == [handle |-> h[t], obj |-> elem[t], pull |-> iters[cur[t]].pulls]

(* line 93, the store failing transiently: get_object raises and nothing    *)
(* catches it                                                               *)
GetObjectTransient(t) ==
    /\ pc[t] = "get"
    /\ faultsLeft > 0
    /\ faultsLeft' = faultsLeft - 1
    /\ iters' = [iters EXCEPT ![cur[t]] =
                    [@ EXCEPT !.gets = Append(@, GetRecord(t)),
                              !.out = Append(@, Error("Unavailable"))]]
    /\ Return(t)
    /\ UNCHANGED <<object_uris, transform, uriCursor, client, created, threads, made,
                   calls, invalid, lists>>

(* A pipeline that reads ahead: the get of the next object is issued with   *)
(* the current one.                                                         *)
GetObjectReadahead(t) ==
    /\ pc[t] = "get"
    /\ LET it == iters[cur[t]]
           ahead == IF it.objs = <<>> THEN <<>>
                    ELSE <<[handle |-> h[t], obj |-> Head(it.objs), pull |-> it.pulls]>>
       IN IF ObjectExists(elem[t])
          THEN /\ iters' = [iters EXCEPT ![cur[t]] =
                              [@ EXCEPT !.gets = Append(@, GetRecord(t)) \o ahead,
                                        !.open = @ + 1 + Len(ahead)]]
               /\ reader' = [reader EXCEPT ![t] = Payload(elem[t])]
               /\ pc' = [pc EXCEPT ![t] = "transform"]
               /\ UNCHANGED <<ret, cur, h, elem>>
          ELSE /\ iters' = [iters EXCEPT ![cur[t]] =
                              [@ EXCEPT !.gets = Append(@, GetRecord(t)) \o ahead,
                                        !.out = Append(@, Error("NotFound"))]]
               /\ Return(t)
    /\ UNCHANGED <<object_uris, transform, uriCursor, client, created, threads, made,
                   calls, invalid, lists, faultsLeft>>

(* line 93: self._get_client().get_object(bucket_key.bucket, bucket_key.key) *)
GetObject(t) ==
    /\ pc[t] = "get"
    /\ IF ObjectExists(elem[t])
       THEN /\ iters' = [iters EXCEPT ![cur[t]] =
                           [@ EXCEPT !.gets = Append(@, GetRecord(t)),
                                     !.open = @ + 1]]
            /\ reader' = [reader EXCEPT ![t] = Payload(elem[t])]
            /\ pc' = [pc EXCEPT ![t] = "transform"]
            /\ UNCHANGED <<ret, cur, h, elem>>
       ELSE /\ iters' = [iters EXCEPT ![cur[t]] =
                           [@ EXCEPT !.gets = Append(@, GetRecord(t)),
                                     !.out = Append(@, Error("NotFound"))]]
            /\ Return(t)
    /\ UNCHANGED <<object_uris, transform, uriCursor, client, created, threads, made,
                   calls, invalid, lists, faultsLeft>>

(* A pipeline that keeps counting the reader as open after the transform *)
HeldByPipeline(n) == n

(* line 92: the reader is handed to the transform, the pipeline holds it no *)
(* longer                                                                   *)
HandedOver(n) == n - 1

(* line 92: self._transform(reader); its result is what next() returns, its *)
(* exception leaves next()                                                  *)
Transform(t) ==
    /\ pc[t] = "transform"
    /\ iters' = [iters EXCEPT ![cur[t]] =
                    [@ EXCEPT !.open = HandedOver(@),
                              !.out = Append(@,
                                  IF TransformRaises(transform, reader[t])
                                  THEN Error("TransformFailed")
                                  ELSE Item(ApplyTransform(transform, reader[t])))]]
    /\ Return(t)
    /\ UNCHANGED <<object_uris, transform, uriCursor, client, created, threads, made,
                   calls, invalid, lists, faultsLeft>>

-----------------------------------------------------------------------------

Next ==
    \/ \E t \in threads : IterBegin(t)
    \/ \E t \in threads : GetClientCheck(t)
    \/ \E t \in threads : GetClientNew(t)
    \/ \E t \in threads : GetClientStore(t)
    \/ \E t \in threads : GetClientReturn(t)
    \/ \E t \in threads : IterSelect(t)
    \/ \E t \in threads, i \in 1..MaxIters : PullBegin(t, i)
    \/ \E t \in threads : GetObjectTransient(t)
    \/ \E t \in threads : GetObject(t)
    \/ \E t \in threads : Transform(t)

Spec == Init /\ [][Next]_vars

(* Two consumer threads on one instance; the argument is re-iterable. *)
Reiterable == {a \in FromObjects \cup FromPrefix : a.kind # "iter"}

InitThreads == InitDataset(Reiterable, {1, 2})

SpecThreads == InitThreads /\ [][Next]_vars

-----------------------------------------------------------------------------
(* Properties *)

ItemsOf(it) == SelectSeq(it.out, LAMBDA e : e.kind = "item")

ErrorFree(it) == \A k \in 1..Len(it.out) : it.out[k].kind # "error"

Raised(it, c) == \E k \in 1..Len(it.out) : it.out[k] = Error(c)

(* What the consumer received up to and including the first end-of-sequence *)
Run(it) ==
    LET stop == CHOOSE k \in 1..Len(it.out) :
                    it.out[k].kind = "stop" /\ \A j \in 1..(k - 1) : it.out[j].kind # "stop"
    IN SubSeq(it.out, 1, stop)

HandlesUsed ==
    {lists[k] : k \in 1..Len(lists)}
    \cup UNION {{iters[i].gets[g].handle : g \in 1..Len(iters[i].gets)} : i \in 1..Len(iters)}
    \cup {iters[i].handle : i \in 1..Len(iters)}

(* C1: when nothing fails, an iteration emits one item per object of the    *)
(* selector, in the selector's order: the k-th item is the transform of the *)
(* k-th object's payload, and an exhausted iteration has emitted them all.  *)
C1_OrderedOneToOne ==
    \A i \in 1..Len(iters) :
        LET it == iters[i]
            items == ItemsOf(it)
        IN ErrorFree(it) =>
            /\ Len(items) <= Len(it.sel)
            /\ \A k \in 1..Len(items) :
                  /\ ObjectExists(it.sel[k])
                  /\ items[k].val = ApplyTransform(transform, Payload(it.sel[k]))
            /\ Exhausted(it) => Len(items) = Len(it.sel)

C1_Witness ==
    \E i \in 1..Len(iters) :
        /\ Exhausted(iters[i])
        /\ ErrorFree(iters[i])
        /\ Len(ItemsOf(iters[i])) = 2
        /\ iters[i].sel[1] # iters[i].sel[2]

(* C2: an iteration begun after an earlier one was exhausted, and run to    *)
(* its end with no transient failure in either, hands the consumer the same *)
(* sequence as the earlier one.                                             *)
C2_RestartEquivalent ==
    \A j \in 1..Len(iters) : \A i \in iters[j].after :
        (/\ Exhausted(iters[j])
         /\ ~Raised(iters[i], "Unavailable")
         /\ ~Raised(iters[j], "Unavailable"))
        => Run(iters[j]) = Run(iters[i])

(* C3: a single consumer never makes the instance hold more than one       *)
(* client: none before the first __iter__ call, exactly one once that call  *)
(* has left _get_client, and every list and get goes through it.            *)
C3_SingleClient ==
    /\ created <= 1
    /\ calls = 0 => (client = NoClient /\ created = 0)
    /\ Len(iters) + invalid >= 1 => (created = 1 /\ client # NoClient)
    /\ \A x \in HandlesUsed : x = client /\ x # NoClient

C3_Witness ==
    /\ Len(iters) = 2
    /\ \A i \in 1..2 : Len(iters[i].gets) >= 1
    /\ created = 1

(* C4: after a get failed permanently on the k-th pull, the iteration emits *)
(* no item on any later pull.                                               *)
C4_PermanentErrorAborts ==
    \A i \in 1..Len(iters) : \A k \in 1..Len(iters[i].out) :
        iters[i].out[k] = Error("NotFound")
        => \A j \in (k + 1)..Len(iters[i].out) : iters[i].out[j].kind # "item"

(* C5: after the transform raised on the k-th pull, the iteration is over:  *)
(* no later pull emits an item and no get is issued after the k-th pull.    *)
C5_TransformFailureTerminal ==
    \A i \in 1..Len(iters) : \A k \in 1..Len(iters[i].out) :
        iters[i].out[k] = Error("TransformFailed")
        => /\ \A j \in (k + 1)..Len(iters[i].out) : iters[i].out[j].kind # "item"
           /\ \A g \in 1..Len(iters[i].gets) : iters[i].gets[g].pull <= k

(* C6: a transient failure of a get, within the retry budget, never reaches *)
(* the consumer.                                                            *)
C6_TransientRecovered ==
    \A i \in 1..Len(iters) : ~Raised(iters[i], "Unavailable")

(* C7: an iteration never holds more than W fetches that get has opened and *)
(* the transform has not yet been handed.                                   *)
C7_WindowBound ==
    \A i \in 1..Len(iters) : iters[i].open <= W

C7_Witness ==
    \E i \in 1..Len(iters) : iters[i].open = 1 /\ Len(iters[i].gets) = 2

(* C9: consumer threads that begin to iterate the fresh instance together   *)
(* create one client between them and all use it.                           *)
C9_OneClientAcrossThreads ==
    /\ created <= 1
    /\ \A x \in HandlesUsed : x = client

(* C10: gets follow pulls: an iteration has issued no more gets than it was *)
(* pulled, each pull issues at most one, and the get issued by the n-th     *)
(* pull is for the n-th object of the selector.                             *)
C10_PullDriven ==
    \A i \in 1..Len(iters) :
        LET it == iters[i]
        IN /\ Len(it.gets) <= it.pulls
           /\ \A g \in 1..Len(it.gets) :
                 /\ it.gets[g].pull <= Len(it.sel)
                 /\ it.gets[g].obj = it.sel[it.gets[g].pull]
                 /\ \A g2 \in (g + 1)..Len(it.gets) : it.gets[g].pull < it.gets[g2].pull

C10_Witness ==
    \E i \in 1..Len(iters) :
        /\ iters[i].objs # <<>>
        /\ iters[i].pulls = 1
        /\ Len(iters[i].gets) = 1
        /\ Len(iters[i].out) = 1

====
